---- MODULE Spec2Model ----
(***************************************************************************)
(* The k-d tree of kdtree.h: Kdtree<N> nodes holding a Point<N>, grown by  *)
(* insert and searched by get_nearby_points.                               *)
(*                                                                         *)
(* Coordinates and radii are C++ floats.  They are modelled as a binary    *)
(* floating-point format of the same shape as IEEE binary32 (round to      *)
(* nearest, ties to even, gradual underflow), scaled down: MantBits bits   *)
(* of significand instead of 24, and a smallest subnormal of 2^-FracBits   *)
(* instead of 2^-149.  A value is written as an integer count of that      *)
(* smallest subnormal, so the representable values are the integers        *)
(* m * 2^k with |m| < 2^MantBits and k >= 0.  Every operation rounds its   *)
(* exact result once, as the float operators do.  Callers pass finite      *)
(* numbers: infinities and NaN are outside the model, and every value      *)
(* stays far below the largest finite number, so nothing overflows.        *)
(***************************************************************************)
EXTENDS Integers, Sequences, FiniteSets

\* ------------------------------------------------------------ parameters

\* Kdtree<N>, Point<N>: the dimension the tests instantiate (Kdtree<2>).
N == 2

\* Bits of significand of the scaled-down float format (binary32 has 24).
MantBits == 3

\* The unit of the model is 2^-FracBits: the format's smallest subnormal.
FracBits == 2

\* The largest magnitude, in units (for a sum) or in squared units (for a
\* product), the float arithmetic is applied to.
MaxRaw == 512

\* insert calls made on one tree.
MaxInserts == 2

\* Coordinate values the callers pass, each representable in the format.
CoordsOf(axis) == IF axis = 0 THEN {2, 3, 20} ELSE {2, 6}

\* Identifiers the callers pass (Point::m_id is not checked for uniqueness).
Ids == {1, 2}

\* Radii the callers pass to get_nearby_points, each representable.
Radii == {-4, 0, 4, 16}

\* Kdtree(const Point<N> & point, int split_axis = 0).
DefaultAxis == 0

\* Values of the constructor's int parameter split_axis.
AxisInputs == -2 .. N

Axes == 0 .. N - 1

\* ------------------------------------------------------ float arithmetic

RECURSIVE Pow2(_)
Pow2(k) == IF k = 0 THEN 1 ELSE 2 * Pow2(k - 1)

\* The spacing of the representable values around n / d (n >= 0): the
\* smallest power of two q with n / d < 2^MantBits * q.
RECURSIVE Quantum(_, _, _)
Quantum(n, d, q) ==
    IF n < Pow2(MantBits) * q * d THEN q ELSE Quantum(n, d, 2 * q)

\* n / d (n >= 0) rounded to the nearest representable value, ties to even.
RoundPos(n, d) ==
    LET q   == Quantum(n, d, 1)
        lo  == n \div (q * d)
        rem == n % (q * d)
        m   == IF 2 * rem < q * d THEN lo
               ELSE IF 2 * rem > q * d THEN lo + 1
               ELSE IF lo % 2 = 0 THEN lo ELSE lo + 1
    IN  m * q

\* The roundings of every magnitude the arithmetic below produces, computed
\* once: of an integer count of units n, and of a product of two counts,
\* which is n / 2^FracBits units.
RoundedSum == [n \in 0 .. MaxRaw |-> RoundPos(n, 1)]
RoundedProduct == [n \in 0 .. MaxRaw |-> RoundPos(n, Pow2(FracBits))]

\* float operator+, operator- and operator*: the exact result, rounded once
\* (round to nearest is symmetric about zero).
FAdd(a, b) ==
    IF a + b >= 0 THEN RoundedSum[a + b] ELSE 0 - RoundedSum[0 - (a + b)]
FSub(a, b) ==
    IF a - b >= 0 THEN RoundedSum[a - b] ELSE 0 - RoundedSum[b - a]
FMul(a, b) ==
    IF a * b >= 0 THEN RoundedProduct[a * b] ELSE 0 - RoundedProduct[0 - a * b]

\* ------------------------------------------------------------- Point<N>

\* Point<N>: m_id and m_coords (indexed 0 .. N-1).
Points == { [id |-> i, coords |-> c] :
            i \in Ids, c \in { f \in [Axes -> CoordsOf(0) \cup CoordsOf(1)] :
                               \A a \in Axes : f[a] \in CoordsOf(a) } }

\* Query points: the identifier of the query point is never read.
QueryPoints == { p \in Points : p.id = 1 }

\* The constructor's point.  Its identifier is the first of Ids: no
\* operation reads an identifier, so renaming them maps runs to runs.
RootPoints == { p \in Points : p.id = 1 }

\* ------------------------------------------------------------ the state

VARIABLES
    nodes,   \* the Kdtree<N> objects in allocation order; nodes[1] is the
             \* root; left and right hold an index of nodes, 0 for nullptr
    call,    \* the latest call on the root, with its arguments
    ret,     \* what that call returned: the list of get_nearby_points,
             \* the empty list for the constructor and for insert (void)
    threads  \* per calling thread, where its insert call stands; used
             \* when the calls of several threads interleave

vars == <<nodes, call, ret, threads>>

\* Kdtree<N>::Kdtree: both children null.
NewNode(point, axis) ==
    [split_point |-> point, split_axis |-> axis, left |-> 0, right |-> 0]

\* Kdtree<N>::split_value: split_point[split_axis].
SplitValue(node) == node.split_point.coords[node.split_axis]

\* Kdtree<N>::falls_on_left_child with <= for <.
FallsOnLeftChildOrEqual(node, point, ub) ==
    IF node.split_axis \in Axes
    THEN point.coords[node.split_axis] <= SplitValue(node)
    ELSE ub

\* Kdtree<N>::falls_on_left_child.  When split_axis is no index of
\* m_coords both operands are read out of bounds of the std::array and the
\* comparison may come out either way: ub is how it comes out.
FallsOnLeftChild(node, point, ub) ==
    IF node.split_axis \in Axes
    THEN point.coords[node.split_axis] < SplitValue(node)
    ELSE ub

\* The int operator % of C++: the quotient truncates toward zero.
CRem(a, n) == IF a >= 0 THEN a % n ELSE 0 - ((0 - a) % n)

\* insert's new_split_axis.
NewSplitAxis(node) == CRem(node.split_axis + 1, N)

\* Kdtree<N>::insert with the null test of the child slot dropped: the new
\* node is assigned to the slot whether or not it is empty.
RECURSIVE InsertOverwriting(_, _, _, _)
InsertOverwriting(ns, i, new_point, ub) ==
    LET new == NewNode(new_point, NewSplitAxis(ns[i]))
    IN  IF FallsOnLeftChild(ns[i], new_point, ub[i])
        THEN Append([ns EXCEPT ![i].left = Len(ns) + 1], new)
        ELSE Append([ns EXCEPT ![i].right = Len(ns) + 1], new)

\* Kdtree<N>::insert called on node i: the heap after the call.
RECURSIVE InsertAt(_, _, _, _)
InsertAt(ns, i, new_point, ub) ==
    LET new == NewNode(new_point, NewSplitAxis(ns[i]))
    IN  IF FallsOnLeftChild(ns[i], new_point, ub[i])
        THEN IF ns[i].left = 0
             THEN Append([ns EXCEPT ![i].left = Len(ns) + 1], new)
             ELSE InsertAt(ns, ns[i].left, new_point, ub)
        ELSE IF ns[i].right = 0
             THEN Append([ns EXCEPT ![i].right = Len(ns) + 1], new)
             ELSE InsertAt(ns, ns[i].right, new_point, ub)

\* Kdtree<N>::intersects_line with the upper bound value, not
\* value + radius.
IntersectsLineNoUpperRadius(node, point, radius) ==
    LET value == point.coords[node.split_axis]
        split == SplitValue(node)
    IN  FSub(value, radius) <= split /\ split <= value

\* Kdtree<N>::intersects_line.
IntersectsLine(node, point, radius) ==
    LET value == point.coords[node.split_axis]
        split == SplitValue(node)
    IN  FSub(value, radius) <= split /\ split <= FAdd(value, radius)

\* The loop of is_neighbor: squared_distance after the axes i .. N-1 are
\* added to acc.
RECURSIVE SquaredDistanceFrom(_, _, _, _)
SquaredDistanceFrom(a, b, i, acc) ==
    IF i = N THEN acc
    ELSE LET diff == FSub(a.coords[i], b.coords[i])
         IN  SquaredDistanceFrom(a, b, i + 1, FAdd(acc, FMul(diff, diff)))

SquaredDistance(a, b) == SquaredDistanceFrom(a, b, 0, 0)

\* Kdtree<N>::is_neighbor with == for <=.
IsNeighborOnlyAtRadius(node, point, radius) ==
    SquaredDistance(node.split_point, point) = FMul(radius, radius)

\* Kdtree<N>::is_neighbor comparing with radius, not radius * radius.
IsNeighborUnsquared(node, point, radius) ==
    SquaredDistance(node.split_point, point) <= radius

\* Kdtree<N>::is_neighbor.
IsNeighbor(node, point, radius) ==
    SquaredDistance(node.split_point, point) <= FMul(radius, radius)

\* Kdtree<N>::get_nearby_points called on node i: the list it returns.
RECURSIVE GetNearbyPoints(_, _, _, _)
GetNearbyPoints(ns, i, point, radius) ==
    LET own == IF IsNeighbor(ns[i], point, radius)
               THEN <<ns[i].split_point>> ELSE <<>>
        left_result ==
            IF ns[i].left # 0
               /\ (IntersectsLine(ns[i], point, radius)
                   \/ FallsOnLeftChild(ns[i], point, FALSE))
            THEN GetNearbyPoints(ns, ns[i].left, point, radius) ELSE <<>>
        right_result ==
            IF ns[i].right # 0
               /\ (IntersectsLine(ns[i], point, radius)
                   \/ ~FallsOnLeftChild(ns[i], point, FALSE))
            THEN GetNearbyPoints(ns, ns[i].right, point, radius) ELSE <<>>
    IN  own \o left_result \o right_result

\* The nodes get_nearby_points is called on when it is called on node i:
\* the node itself and, through each child it recurses into, theirs.
RECURSIVE Visited(_, _, _, _)
Visited(ns, i, point, radius) ==
    {i}
    \cup (IF ns[i].left # 0
             /\ (IntersectsLine(ns[i], point, radius)
                 \/ FallsOnLeftChild(ns[i], point, FALSE))
          THEN Visited(ns, ns[i].left, point, radius) ELSE {})
    \cup (IF ns[i].right # 0
             /\ (IntersectsLine(ns[i], point, radius)
                 \/ ~FallsOnLeftChild(ns[i], point, FALSE))
          THEN Visited(ns, ns[i].right, point, radius) ELSE {})

\* -------------------------------------------------------------- actions

\* How the out-of-bounds comparisons of one call come out, per node.
UBOutcomes == [1 .. MaxInserts + 1 -> BOOLEAN]
NoUB == [i \in 1 .. MaxInserts + 1 |-> FALSE]

\* The threads that call insert on one tree.
Threads == {1, 2}

\* A thread that is in no call.
Idle(point, overlapped) ==
    [pc |-> "idle", new_point |-> point, this |-> 0, on_left |-> FALSE,
     child |-> 0, overlapped |-> overlapped]

\* Kdtree<N> tree(point, axis).
Construct(point, axis) ==
    /\ nodes = <<NewNode(point, axis)>>
    /\ call = [op |-> "construct", point |-> point, radius |-> 0]
    /\ ret = <<>>
    /\ threads = [t \in Threads |-> Idle(point, FALSE)]

\* tree.insert(point)
Insert(point, ub) ==
    /\ Len(nodes) <= MaxInserts
    /\ nodes' = InsertAt(nodes, 1, point, ub)
    /\ call' = [op |-> "insert", point |-> point, radius |-> 0]
    /\ ret' = <<>>
    /\ UNCHANGED threads

\* tree.get_nearby_points(point, radius).  The function is const: a second
\* query in a row finds the tree of the first and reaches only states the
\* first can reach, so queries are taken after a constructor or an insert.
Query(point, radius) ==
    /\ call.op # "query"
    /\ call' = [op |-> "query", point |-> point, radius |-> radius]
    /\ ret' = GetNearbyPoints(nodes, 1, point, radius)
    /\ UNCHANGED <<nodes, threads>>

\* Kdtree<N> tree(point): split_axis takes its default.
Init == \E point \in RootPoints : Construct(point, DefaultAxis)

Next ==
    \/ \E point \in Points : Insert(point, NoUB)
    \/ \E point \in QueryPoints, radius \in Radii : Query(point, radius)

Spec == Init /\ [][Next]_vars

\* Trees grown from a root with any split axis that is an index of the
\* coordinates.
InitInsert == \E point \in RootPoints, axis \in Axes : Construct(point, axis)

NextInsert == \E point \in Points : Insert(point, NoUB)

SpecInsert == InitInsert /\ [][NextInsert]_vars

\* A tree built with any value of the constructor's int split_axis.
InitAxis ==
    \E point \in RootPoints, axis \in AxisInputs : Construct(point, axis)

NextAxis == \E point \in Points, ub \in UBOutcomes : Insert(point, ub)

SpecAxis == InitAxis /\ [][NextAxis]_vars

\* ------------------------------------- insert, step by step, per thread

\* The child slot insert looks at: left when the point falls on the left.
Slot(node, on_left) == IF on_left THEN node.left ELSE node.right

\* insert's null test with the slot taken for empty whatever it holds.
SlotAlwaysEmpty(node, on_left) == TRUE

\* insert's null test of the child slot: !left, !right.
SlotEmpty(node, on_left) == Slot(node, on_left) = 0

\* Thread t calls tree.insert(point).  It overlaps when another thread is
\* inside insert at that moment.
InsertCall(t, point) ==
    /\ threads[t].pc = "idle"
    /\ Len(nodes) + Cardinality({ u \in Threads : threads[u].pc # "idle" })
           <= MaxInserts
    /\ threads' =
           [threads EXCEPT ![t] =
               [pc |-> "test", new_point |-> point, this |-> 1,
                on_left |-> FALSE, child |-> 0,
                overlapped |-> \/ threads[t].overlapped
                               \/ \E u \in Threads \ {t} :
                                      threads[u].pc # "idle"]]
    /\ call' = [op |-> "insert", point |-> point, radius |-> 0]
    /\ ret' = <<>>
    /\ UNCHANGED nodes

\* Thread t, in insert on node this, takes its side and reads the slot:
\* falls_on_left_child, then if (!left) or if (!right).
TestSlot(t) ==
    LET th      == threads[t]
        on_left == FallsOnLeftChild(nodes[th.this], th.new_point, FALSE)
    IN  /\ th.pc = "test"
        /\ threads' =
               [threads EXCEPT ![t].on_left = on_left,
                               ![t].child = Slot(nodes[th.this], on_left),
                               ![t].pc = IF SlotEmpty(nodes[th.this], on_left)
                                         THEN "assign" ELSE "descend"]
        /\ UNCHANGED <<nodes, call, ret>>

\* Thread t found the slot taken and calls insert on the child:
\* left->insert(new_point), right->insert(new_point).  The pointer is
\* the one the test read or, where the build reads the slot again, the
\* one the slot holds now.
Descend(t) ==
    LET th == threads[t]
    IN  /\ th.pc = "descend"
        /\ \E next \in {th.child, Slot(nodes[th.this], th.on_left)} :
               threads' = [threads EXCEPT ![t].this = next,
                                          ![t].child = 0,
                                          ![t].on_left = FALSE,
                                          ![t].pc = "test"]
        /\ UNCHANGED <<nodes, call, ret>>

\* Thread t found the slot empty: left = new Kdtree<N>(new_point,
\* new_split_axis), or right = ..., and return.  Whatever the slot holds
\* by now is replaced.
AssignSlot(t) ==
    LET th  == threads[t]
        new == NewNode(th.new_point, NewSplitAxis(nodes[th.this]))
        at  == Len(nodes) + 1
    IN  /\ th.pc = "assign"
        /\ nodes' = Append(IF th.on_left
                           THEN [nodes EXCEPT ![th.this].left = at]
                           ELSE [nodes EXCEPT ![th.this].right = at],
                           new)
        /\ threads' = [threads EXCEPT
                          ![t] = Idle(th.new_point, th.overlapped)]
        /\ UNCHANGED <<call, ret>>

\* Inserts from the threads with no synchronization between them.
InitRace == \E point \in RootPoints : Construct(point, DefaultAxis)

NextRace ==
    \E t \in Threads :
        \/ \E point \in Points : InsertCall(t, point)
        \/ TestSlot(t)
        \/ Descend(t)
        \/ AssignSlot(t)

SpecRace == InitRace /\ [][NextRace]_vars

\* ---------------------------------------------------- derived notions

\* The nodes of the subtree whose root is node i (i = 0: the empty tree).
RECURSIVE Subtree(_, _)
Subtree(ns, i) ==
    IF i = 0 THEN {}
    ELSE {i} \cup Subtree(ns, ns[i].left) \cup Subtree(ns, ns[i].right)

\* The points the tree holds, in the order the calls passed them.
Inserted == [i \in 1 .. Len(nodes) |-> nodes[i].split_point]

Range(seq) == { seq[k] : k \in 1 .. Len(seq) }
IdsOf(seq) == { seq[k].id : k \in 1 .. Len(seq) }

\* brute_ids_2d of the tests: the identifiers of the points of pts whose
\* squared distance to q, computed in float, is at most r * r.
BruteIds(pts, q, r) ==
    { pts[k].id : k \in { j \in 1 .. Len(pts) :
                          SquaredDistance(pts[j], q) <= FMul(r, r) } }

\* kdtree_ids_2d of the tests: the tree of pts[1] with pts[2], ... inserted
\* in turn (root axis given), as a heap.
RECURSIVE BuildTree(_, _, _)
BuildTree(pts, k, axis) ==
    IF k = 1 THEN <<NewNode(pts[1], axis)>>
    ELSE InsertAt(BuildTree(pts, k - 1, axis), 1, pts[k], NoUB)

\* The orders in which the points of pts can be passed.
Orders(pts) ==
    { [k \in 1 .. Len(pts) |-> pts[f[k]]] :
      f \in { g \in [1 .. Len(pts) -> 1 .. Len(pts)] :
              \A a, b \in 1 .. Len(pts) : a # b => g[a] # g[b] } }

\* The nodes insert(point) or a query at point passes through from node i
\* on the point's own side of every split.
RECURSIVE DescentPath(_, _, _)
DescentPath(ns, i, point) ==
    IF i = 0 THEN {}
    ELSE {i} \cup DescentPath(ns,
                    IF FallsOnLeftChild(ns[i], point, FALSE)
                    THEN ns[i].left ELSE ns[i].right, point)

Queried == call.op = "query"

\* --------------------------------------------------------------- claims

\* C1: after a query with radius r >= 0 the identifiers returned are
\* exactly those of the stored points whose squared distance to the query
\* point is at most r * r.
C1_MatchesBruteForce ==
    (Queried /\ call.radius >= 0) =>
        IdsOf(ret) = BruteIds(Inserted, call.point, call.radius)

\* C2: after a query with radius r >= 0 every stored point whose squared
\* distance to the query point is exactly r * r is in the result.
C2_BoundaryIncluded ==
    (Queried /\ call.radius >= 0) =>
        \A i \in Subtree(nodes, 1) :
            SquaredDistance(nodes[i].split_point, call.point)
                = FMul(call.radius, call.radius)
            => nodes[i].split_point \in Range(ret)

\* C3: a query with radius 0 returns exactly the stored points whose
\* coordinates all equal the query point's.
C3_ZeroRadiusCoincident ==
    (Queried /\ call.radius = 0) =>
        Range(ret) = { p \in Range(Inserted) : p.coords = call.point.coords }

\* C4: the tree holds one node per point passed to the constructor and to
\* insert, and a query whose radius covers every stored point returns as
\* many points as were passed.
C4_Growth ==
    /\ Cardinality(Subtree(nodes, 1)) = Len(nodes)
    /\ (Queried /\ call.radius >= 0
        /\ \A i \in 1 .. Len(nodes) :
              SquaredDistance(nodes[i].split_point, call.point)
                  <= FMul(call.radius, call.radius))
       => Len(ret) = Len(nodes)

\* C5: a query with radius r >= 0 returns the same set of points from the
\* tree built of the same points passed in any other order.
C5_OrderInvariant ==
    (Queried /\ call.radius >= 0) =>
        \A pts \in Orders(Inserted) :
            Range(GetNearbyPoints(BuildTree(pts, Len(pts), nodes[1].split_axis),
                                  1, call.point, call.radius))
                = Range(ret)

\* C6: every point a query with radius r1 >= 0 returns is returned by the
\* query at the same point with any radius r2 >= r1.
C6_Monotone ==
    (Queried /\ call.radius >= 0) =>
        \A r2 \in { r \in Radii : r > call.radius } :
            Range(ret) \subseteq Range(GetNearbyPoints(nodes, 1, call.point, r2))

C6_Witness ==
    /\ Queried /\ call.radius = 0 /\ ret # <<>>
    /\ \E r2 \in Radii :
          Range(GetNearbyPoints(nodes, 1, call.point, r2)) \ Range(ret) # {}

\* C7 as stated, for the radii it adds to C1: after a query with a negative
\* radius r the identifiers returned are exactly those of the stored points
\* whose squared distance to the query point is at most r * r.
C7_MatchesBruteForceNegative ==
    (Queried /\ call.radius < 0) =>
        IdsOf(ret) = BruteIds(Inserted, call.point, call.radius)

\* C7 amended: for every radius r, negative or not, every point returned is
\* a stored point whose squared distance to the query point is at most
\* r * r, and every such point stored on the query point's own descent
\* path is returned.
C7_SoundAndOnPath ==
    Queried =>
        /\ \A p \in Range(ret) :
              /\ p \in Range(Inserted)
              /\ SquaredDistance(p, call.point) <= FMul(call.radius, call.radius)
        /\ \A i \in DescentPath(nodes, 1, call.point) :
              SquaredDistance(nodes[i].split_point, call.point)
                  <= FMul(call.radius, call.radius)
              => nodes[i].split_point \in Range(ret)

C7_Witness ==
    /\ Queried /\ call.radius < 0 /\ ret # <<>>
    /\ IdsOf(ret) # BruteIds(Inserted, call.point, call.radius)

\* C8: for every node X, every point in X's left subtree is strictly less
\* than X's point on X's split axis, and every point in X's right subtree
\* is greater than or equal to it.
C8_Partition ==
    \A x \in Subtree(nodes, 1) :
        LET a == nodes[x].split_axis
            s == nodes[x].split_point.coords[a]
        IN  /\ \A y \in Subtree(nodes, nodes[x].left) :
                  nodes[y].split_point.coords[a] < s
            /\ \A y \in Subtree(nodes, nodes[x].right) :
                  nodes[y].split_point.coords[a] >= s

\* A right child equal to the root on the root's axis, with a left child
\* of its own.
C8_Witness ==
    /\ Len(nodes) = 3
    /\ nodes[1].right = 2 /\ nodes[2].left = 3
    /\ nodes[2].split_point.coords[nodes[1].split_axis]
         = nodes[1].split_point.coords[nodes[1].split_axis]

\* C9: whatever axis the constructor was given, every node's split_axis is
\* in [0, N) and every child's split_axis is its parent's plus one, mod N.
C9_AxisInvariant ==
    \A x \in Subtree(nodes, 1) :
        /\ nodes[x].split_axis \in 0 .. N - 1
        /\ \A c \in {nodes[x].left, nodes[x].right} \ {0} :
              nodes[c].split_axis = (nodes[x].split_axis + 1) % N

\* The child slot an insert of point reaches first when it descends from
\* node i by the comparison on each node's split axis: the node and side.
RECURSIVE FirstEmptySlot(_, _, _)
FirstEmptySlot(ns, i, point) ==
    LET a == ns[i].split_axis
    IN  IF point.coords[a] < ns[i].split_point.coords[a]
        THEN IF ns[i].left = 0 THEN <<i, "left">>
             ELSE FirstEmptySlot(ns, ns[i].left, point)
        ELSE IF ns[i].right = 0 THEN <<i, "right">>
             ELSE FirstEmptySlot(ns, ns[i].right, point)

\* C10: an insert(p) changes exactly one child slot, the first empty one on
\* p's descent from the root, from empty to a new leaf holding p; every
\* node that existed keeps its point, its axis and its non-empty links, and
\* no node leaves the tree.
C10_InsertFrame ==
    [][ call'.op = "insert" =>
        LET n    == Len(nodes)
            slot == FirstEmptySlot(nodes, 1, call'.point)
        IN  /\ Len(nodes') = n + 1
            /\ nodes'[n + 1].split_point = call'.point
            /\ nodes'[n + 1].left = 0 /\ nodes'[n + 1].right = 0
            /\ \A i \in 1 .. n :
                  /\ nodes'[i].split_point = nodes[i].split_point
                  /\ nodes'[i].split_axis = nodes[i].split_axis
                  /\ IF slot = <<i, "left">>
                     THEN nodes[i].left = 0 /\ nodes'[i].left = n + 1
                     ELSE nodes'[i].left = nodes[i].left
                  /\ IF slot = <<i, "right">>
                     THEN nodes[i].right = 0 /\ nodes'[i].right = n + 1
                     ELSE nodes'[i].right = nodes[i].right
            /\ Subtree(nodes', 1) = Subtree(nodes, 1) \cup {n + 1}
      ]_vars

\* An insert that descended through a non-empty slot of the root.
C10_Witness ==
    /\ call.op = "insert" /\ Len(nodes) = 3
    /\ 3 \in {nodes[2].left, nodes[2].right}

\* Whether point p lies within distance r >= 0 of q: the Euclidean distance
\* of the two points as real numbers, with no rounding (in squared units).
RECURSIVE ExactSquaredDistance(_, _, _)
ExactSquaredDistance(p, q, i) ==
    IF i = N THEN 0
    ELSE (p.coords[i] - q.coords[i]) * (p.coords[i] - q.coords[i])
         + ExactSquaredDistance(p, q, i + 1)

WithinDistance(p, q, r) == ExactSquaredDistance(p, q, 0) <= r * r

\* C11: in a query at q with radius r >= 0, a child of a visited node is
\* descended into iff it exists and the test q[a] - r <= s <= q[a] + r of
\* the node passes or q is on the child's side of the split (q[a] < s for
\* the left child, q[a] >= s for the right); and a child subtree that is
\* not descended into holds no point within distance r of q.
C11_PruningSound ==
    (Queried /\ call.radius >= 0) =>
        LET q == call.point
            r == call.radius
            seen == Visited(nodes, 1, q, r)
        IN  \A x \in seen :
              LET a == nodes[x].split_axis
                  s == nodes[x].split_point.coords[a]
                  crosses == FSub(q.coords[a], r) <= s /\ s <= FAdd(q.coords[a], r)
              IN  /\ nodes[x].left # 0 =>
                        /\ nodes[x].left \in seen <=> (crosses \/ q.coords[a] < s)
                        /\ nodes[x].left \notin seen =>
                              \A y \in Subtree(nodes, nodes[x].left) :
                                  ~WithinDistance(nodes[y].split_point, q, r)
                  /\ nodes[x].right # 0 =>
                        /\ nodes[x].right \in seen <=> (crosses \/ q.coords[a] >= s)
                        /\ nodes[x].right \notin seen =>
                              \A y \in Subtree(nodes, nodes[x].right) :
                                  ~WithinDistance(nodes[y].split_point, q, r)

\* A query with a positive radius that descends into one child of the root
\* and prunes the other.
C11_Witness ==
    /\ Queried /\ call.radius > 0
    /\ nodes[1].left # 0 /\ nodes[1].right # 0
    /\ Cardinality({nodes[1].left, nodes[1].right}
                   \cap Visited(nodes, 1, call.point, call.radius)) = 1

\* Some insert call started while another thread was inside insert.
Overlapped == \E t \in Threads : threads[t].overlapped

\* The allocated nodes that the root does not reach: the points lost.
Lost == (1 .. Len(nodes)) \ Subtree(nodes, 1)

\* C12.  Concurrent inserts race on the child slots: the test of a slot
\* and the assignment to it are separate steps.  As long as no insert
\* call has overlapped another (the calls are serialized), no thread is
\* about to assign a slot that is taken, and every allocated node is in
\* the tree: the tree holds as many nodes as points were given to it.
\* (That a point is lost when the calls interleave is C12_Witness.)
C12_SerializedLosesNothing ==
    ~Overlapped =>
        /\ Lost = {}
        /\ Cardinality(Subtree(nodes, 1)) = Len(nodes)
        /\ \A t \in Threads :
               threads[t].pc = "assign" =>
                   Slot(nodes[threads[t].this], threads[t].on_left) = 0

\* Two inserts have returned, both had found the same slot of a node of
\* the tree empty and both assigned it: the node of one is in the slot,
\* the node of the other is lost, and the tree holds fewer nodes than
\* points were given to it.
C12_Witness ==
    /\ \A t \in Threads : threads[t].pc = "idle"
    /\ Overlapped
    /\ Cardinality(Subtree(nodes, 1)) < Len(nodes)
    /\ \E j \in Lost, i \in Subtree(nodes, 1) :
           LET on_left == FallsOnLeftChild(nodes[i], nodes[j].split_point,
                                           FALSE)
           IN  /\ Slot(nodes[i], on_left) \notin {0, j}
               /\ nodes[j].split_axis = NewSplitAxis(nodes[i])
               /\ j < Slot(nodes[i], on_left)

\* How many times point p occurs in the list seq.
Occurrences(seq, p) == Cardinality({ k \in 1 .. Len(seq) : seq[k] = p })

\* C13: the list a query with radius r >= 0 returns holds the point of
\* each stored node once when the node is within distance r of the query
\* point and not at all otherwise: every point occurs in it as many times
\* as there are nodes within the distance that store it, and its length is
\* the number of stored nodes within the distance.
C13_Multiplicity ==
    (Queried /\ call.radius >= 0) =>
        LET near == { i \in Subtree(nodes, 1) :
                      WithinDistance(nodes[i].split_point, call.point,
                                     call.radius) }
        IN  /\ \A p \in Points :
                  Occurrences(ret, p)
                      = Cardinality({ i \in near : nodes[i].split_point = p })
            /\ Len(ret) = Cardinality(near)

====
